---- MODULE Spec2Model ----
(***************************************************************************)
(* PixelLab MCP server (mcp/pixellab-mcp/server.py) and the wait-for-      *)
(* completion loop of mcp/pixellab-mcp/test_generate_sprite.py.            *)
(*                                                                         *)
(* Python str values are sequences of one-character strings, so that       *)
(* lower(), replace(), concatenation and the `in` substring test are       *)
(* computed.  A Python value that may be None is wrapped: None or Some(v). *)
(* A dict is a record.  An exception that leaves a tool uncaught is the    *)
(* record Fault(text), which has no "ok" field.                            *)
(*                                                                         *)
(* The image decode and the file save (pil_image(), mkdir(), save()) are   *)
(* taken to succeed: the remote client is the only source of failure.      *)
(***************************************************************************)
EXTENDS Integers, Sequences, FiniteSets, TLC

VARIABLES
    files,      \* the disk: function from the paths that exist to the image each holds
    pc,         \* "idle", or "set_loop" while generate_character_set iterates
    ncalls,     \* tool calls started so far
    tool,       \* the tool of the latest call
    args,       \* the arguments of the latest call
    resp,       \* the outcome of the latest remote call
    ret,        \* the value the latest finished call returned
    dirs,       \* generate_character_set: local `directions`
    idx,        \* generate_character_set: index of the next loop iteration
    results,    \* generate_character_set: local `results`
    errors,     \* generate_character_set: local `errors`
    calls,      \* directions of the remote calls made by the current generate_character_set
    outcomes,   \* the remote outcome of each of those calls
    nwrites,    \* pil_image.save calls so far
    max_wait,       \* test_generate_sprite.py: max_wait
    poll_interval,  \* test_generate_sprite.py: poll_interval
    waited,         \* test_generate_sprite.py: waited
    rotations,      \* test_generate_sprite.py: character.rotations as of the latest poll
    ppc,            \* position of the script in its step 3
    trace           \* the sleeps and the polls of step 3, in order

serverVars ==
    <<files, pc, ncalls, tool, args, resp, ret, dirs, idx, results, errors, calls, outcomes,
      nwrites>>
pollVars == <<max_wait, poll_interval, waited, rotations, ppc, trace>>
vars == <<serverVars, pollVars>>

---------------------------------------------------------------------------
(* Bounds *)

MaxCalls == 2       \* tool calls per behaviour
MaxDirLen == 2      \* length of an explicit `directions` list
MaxTextLen == 3     \* length of the enumerated error texts
MaxWaitBound == 10  \* largest enumerated max_wait
MaxInterval == 5    \* largest enumerated poll_interval

---------------------------------------------------------------------------
(* Python values *)

None == [is_none |-> TRUE]
Some(v) == [is_none |-> FALSE, val |-> v]

\* x or y, for an Optional[str] x
OrElse(x, y) == IF x.is_none \/ x.val = "" THEN y ELSE x.val

Range(s) == {s[i] : i \in 1..Len(s)}

\* str.lower() on the characters that occur in Names
LowerChar(c) ==
    IF c = "B" THEN "b" ELSE IF c = "W" THEN "w" ELSE c

Lower(s) == [i \in 1..Len(s) |-> LowerChar(s[i])]

\* str.replace(old, new) for one-character `old`
Replace(s, old, new) == [i \in 1..Len(s) |-> IF s[i] = old THEN new ELSE s[i]]

\* pat in s
Contains(s, pat) ==
    \E i \in 0..(Len(s) - Len(pat)) :
        \A j \in 1..Len(pat) : s[i + j] = pat[j]

north == <<"n", "o", "r", "t", "h">>
south == <<"s", "o", "u", "t", "h">>
east == <<"e", "a", "s", "t">>
west == <<"w", "e", "s", "t">>

png == <<".", "p", "n", "g">>

txt401 == <<"4", "0", "1">>
txtUnauthorized == <<"U", "n", "a", "u", "t", "h", "o", "r", "i", "z", "e", "d">>
txtNoImage ==
    <<"N", "o", " ", "i", "m", "a", "g", "e", " ", "i", "n", " ",
      "r", "e", "s", "p", "o", "n", "s", "e">>
txtFailedAny ==
    <<"F", "a", "i", "l", "e", "d", " ", "t", "o", " ", "g", "e", "n", "e", "r", "a", "t", "e", " ",
      "a", "n", "y", " ", "s", "p", "r", "i", "t", "e", "s">>

DEFAULT_OUTPUT_DIR == "sprites"

---------------------------------------------------------------------------
(* Inputs *)

Directions == {north, south, east, west}
DefaultDirections == <<north, south, east, west>>

Names == {<<"B", " ", "W">>, <<"c">>}
Descriptions == {"blue wizard"}
OutputDirs == {None, Some(""), Some("out")}
Images == {1, 2}

\* all sequences over S of length at most n
RECURSIVE SeqsUpTo(_, _)
SeqsUpTo(S, n) ==
    IF n = 0 THEN {<<>>}
    ELSE LET shorter == SeqsUpTo(S, n - 1)
         IN  shorter \cup {Append(s, x) : s \in shorter, x \in S}

DirectionLists == SeqsUpTo(Directions, MaxDirLen)

\* str(e) of the exceptions the remote generation call raises
ErrorTexts == {<<>>, <<"q", "u", "o", "t", "a">>}

\* str(e) of the exceptions the balance lookup raises
HealthErrorTexts ==
    SeqsUpTo({"4", "0", "1"}, MaxTextLen)
      \cup {txtUnauthorized,
            <<"H", "T", "T", "P", " ">> \o txt401,
            <<"4", "0", " ", "1">>,
            <<"U", "n", "a", "u", "t", "h", "o", "r", "i", "z", "e">>,
            <<"u", "n", "a", "u", "t", "h", "o", "r", "i", "z", "e", "d">>,
            <<"n", "o", "t", " ">> \o txtUnauthorized,
            <<"t", "i", "m", "e", "o", "u", "t">>}

Raise(text) == [kind |-> "raise", text |-> text]
Response(image) == [kind |-> "response", image |-> image]

\* outcomes of pixellab_client.generate_image_pixflux
GenerateOutcomes ==
    {Raise(t) : t \in ErrorTexts} \cup {Response(None)} \cup {Response(Some(i)) : i \in Images}

\* the `usd` of a balance object that has no such attribute
NoUsd == -1

\* outcomes of pixellab_client.get_balance: an error, or a balance object with or without `usd`
BalanceOutcomes ==
    {[kind |-> "raise", text |-> t, usd |-> NoUsd] : t \in HealthErrorTexts}
      \cup {[kind |-> "balance", text |-> <<>>, usd |-> u] : u \in {NoUsd, 0, 5}}

Fault(text) == [fault |-> text]
IsFault(r) == "fault" \in DOMAIN r

---------------------------------------------------------------------------
(* The disk *)

FilePath(dir, filename) == [dir |-> dir, file |-> filename]

\* Save that keeps the content of a file that exists
Save_KeepExisting(disk, path, image) ==
    [p \in (DOMAIN disk) \cup {path} |-> IF p \in DOMAIN disk THEN disk[p] ELSE image]

\* pil_image.save(file_path): creates the file or replaces its content
Save(disk, path, image) ==
    [p \in (DOMAIN disk) \cup {path} |-> IF p = path THEN image ELSE disk[p]]

EmptyDisk == [p \in {} |-> 0]

---------------------------------------------------------------------------
(* The tools.  Each returns [ret |-> the returned dict, files |-> the disk afterwards]. *)

\* health with the credential test reduced to "401"
health_Only401(b) ==
    IF b.kind = "raise"
    THEN [ok |-> FALSE,
          error |-> b.text,
          token_valid |-> ~Contains(b.text, txt401)]
    ELSE LET usd_balance == IF b.usd # NoUsd THEN b.usd ELSE 0
         IN  [ok |-> TRUE,
              token_valid |-> TRUE,
              balance_usd |-> usd_balance,
              subscription |-> IF usd_balance = 0
                               THEN "Tier 1 (1000 images/month)"
                               ELSE "$<usd_balance> USD"]

health(b) ==
    IF b.kind = "raise"
    THEN [ok |-> FALSE,
          error |-> b.text,
          token_valid |-> ~Contains(b.text, txt401) /\ ~Contains(b.text, txtUnauthorized)]
    ELSE LET usd_balance == IF b.usd # NoUsd THEN b.usd ELSE 0
         IN  [ok |-> TRUE,
              token_valid |-> TRUE,
              balance_usd |-> usd_balance,
              subscription |-> IF usd_balance = 0
                               THEN "Tier 1 (1000 images/month)"
                               ELSE "$<usd_balance> USD"]

SpriteFilename(name, direction) ==
    Replace(Lower(name), " ", "_") \o <<"_">> \o direction \o png

\* generate_sprite that saves before it looks at response.image
generate_sprite_SaveFirst(disk, r, description, name, width, height, view, direction, output_dir) ==
    IF r.kind = "raise"
    THEN [ret |-> [ok |-> FALSE, error |-> r.text, description |-> description],
          files |-> disk]
    ELSE LET output_path == <<OrElse(output_dir, DEFAULT_OUTPUT_DIR)>>
             filename == SpriteFilename(name, direction)
             file_path == FilePath(output_path, filename)
         IN  IF r.image.is_none
             THEN [ret |-> [ok |-> FALSE, error |-> txtNoImage, description |-> description],
                   files |-> Save(disk, file_path, 0)]
             ELSE [ret |-> [ok |-> TRUE,
                            file_path |-> file_path,
                            filename |-> filename,
                            size |-> <<width, height>>,
                            direction |-> direction,
                            view |-> view,
                            description |-> description],
                   files |-> Save(disk, file_path, r.image.val)]

generate_sprite(disk, r, description, name, width, height, view, direction, output_dir) ==
    IF r.kind = "raise"
    THEN [ret |-> [ok |-> FALSE, error |-> r.text, description |-> description],
          files |-> disk]
    ELSE IF r.image.is_none
    THEN [ret |-> [ok |-> FALSE, error |-> txtNoImage, description |-> description],
          files |-> disk]
    ELSE LET output_path == <<OrElse(output_dir, DEFAULT_OUTPUT_DIR)>>
             filename == SpriteFilename(name, direction)
             file_path == FilePath(output_path, filename)
         IN  [ret |-> [ok |-> TRUE,
                       file_path |-> file_path,
                       filename |-> filename,
                       size |-> <<width, height>>,
                       direction |-> direction,
                       view |-> view,
                       description |-> description],
              files |-> Save(disk, file_path, r.image.val)]

TileFilename(name) == Replace(Lower(name), " ", "_") \o png

\* generate_tile without its `except Exception` clause
generate_tile_NoExcept(disk, r, description, name, size, isometric, output_dir) ==
    IF r.kind = "raise"
    THEN [ret |-> Fault(r.text), files |-> disk]
    ELSE IF r.image.is_none
    THEN [ret |-> [ok |-> FALSE, error |-> txtNoImage, description |-> description],
          files |-> disk]
    ELSE LET output_path == <<OrElse(output_dir, DEFAULT_OUTPUT_DIR), "tiles">>
             filename == TileFilename(name)
             file_path == FilePath(output_path, filename)
         IN  [ret |-> [ok |-> TRUE,
                       file_path |-> file_path,
                       filename |-> filename,
                       size |-> <<size, size>>,
                       isometric |-> isometric,
                       description |-> description],
              files |-> Save(disk, file_path, r.image.val)]

generate_tile(disk, r, description, name, size, isometric, output_dir) ==
    IF r.kind = "raise"
    THEN [ret |-> [ok |-> FALSE, error |-> r.text, description |-> description],
          files |-> disk]
    ELSE IF r.image.is_none
    THEN [ret |-> [ok |-> FALSE, error |-> txtNoImage, description |-> description],
          files |-> disk]
    ELSE LET output_path == <<OrElse(output_dir, DEFAULT_OUTPUT_DIR), "tiles">>
             filename == TileFilename(name)
             file_path == FilePath(output_path, filename)
         IN  [ret |-> [ok |-> TRUE,
                       file_path |-> file_path,
                       filename |-> filename,
                       size |-> <<size, size>>,
                       isometric |-> isometric,
                       description |-> description],
              files |-> Save(disk, file_path, r.image.val)]

\* character_set_result that leaves the errors out of a successful result
character_set_result_NoErrors(name, rs, es) ==
    IF rs = <<>>
    THEN [ok |-> FALSE,
          error |-> txtFailedAny,
          errors |-> Some(es)]
    ELSE [ok |-> TRUE,
          character_name |-> name,
          sprites_generated |-> Len(rs),
          directions |-> [i \in 1..Len(rs) |-> rs[i].direction],
          files |-> [i \in 1..Len(rs) |-> rs[i].file_path],
          directory |-> rs[1].file_path.dir,
          errors |-> None]

\* character_set_result that fails as soon as one direction failed
character_set_result_AnyError(name, rs, es) ==
    IF rs = <<>> \/ es # <<>>
    THEN [ok |-> FALSE,
          error |-> txtFailedAny,
          errors |-> Some(es)]
    ELSE [ok |-> TRUE,
          character_name |-> name,
          sprites_generated |-> Len(rs),
          directions |-> [i \in 1..Len(rs) |-> rs[i].direction],
          files |-> [i \in 1..Len(rs) |-> rs[i].file_path],
          directory |-> rs[1].file_path.dir,
          errors |-> None]

\* the dict generate_character_set returns after its loop
character_set_result(name, rs, es) ==
    IF rs = <<>>
    THEN [ok |-> FALSE,
          error |-> txtFailedAny,
          errors |-> Some(es)]
    ELSE [ok |-> TRUE,
          character_name |-> name,
          sprites_generated |-> Len(rs),
          directions |-> [i \in 1..Len(rs) |-> rs[i].direction],
          files |-> [i \in 1..Len(rs) |-> rs[i].file_path],
          directory |-> rs[1].file_path.dir,
          errors |-> IF es # <<>> THEN Some(es) ELSE None]

---------------------------------------------------------------------------
(* The server *)

Sizes == {48}
Views == {"low top-down"}

NoCall == [pending |-> TRUE]

ServerInit ==
    /\ files = EmptyDisk
    /\ pc = "idle"
    /\ ncalls = 0
    /\ tool = "none"
    /\ args = NoCall
    /\ resp = [kind |-> "none"]
    /\ ret = NoCall
    /\ dirs = <<>>
    /\ idx = 1
    /\ results = <<>>
    /\ errors = <<>>
    /\ calls = <<>>
    /\ outcomes = <<>>
    /\ nwrites = 0

\* the tool saved a file: it returns ok exactly after pil_image.save
Saved(result) == ~IsFault(result) /\ result.ok

setLocals == <<dirs, idx, results, errors, calls, outcomes>>

Health ==
    /\ pc = "idle"
    /\ ncalls < MaxCalls
    /\ \E b \in BalanceOutcomes :
         /\ resp' = b
         /\ ret' = health(b)
    /\ tool' = "health"
    /\ args' = NoCall
    /\ ncalls' = ncalls + 1
    /\ UNCHANGED <<files, pc, setLocals, nwrites, pollVars>>

GenerateSprite ==
    /\ pc = "idle"
    /\ ncalls < MaxCalls
    /\ \E description \in Descriptions, name \in Names, width \in Sizes, height \in Sizes,
          view \in Views, direction \in Directions, output_dir \in OutputDirs,
          r \in GenerateOutcomes :
         LET g == generate_sprite(files, r, description, name, width, height, view,
                                  direction, output_dir)
         IN  /\ args' = [description |-> description, name |-> name, width |-> width,
                         height |-> height, view |-> view, direction |-> direction,
                         output_dir |-> output_dir]
             /\ resp' = r
             /\ ret' = g.ret
             /\ files' = g.files
             /\ nwrites' = IF Saved(g.ret) THEN nwrites + 1 ELSE nwrites
    /\ tool' = "generate_sprite"
    /\ ncalls' = ncalls + 1
    /\ UNCHANGED <<pc, setLocals, pollVars>>

GenerateTile ==
    /\ pc = "idle"
    /\ ncalls < MaxCalls
    /\ \E description \in Descriptions, name \in Names, size \in Sizes,
          isometric \in BOOLEAN, output_dir \in OutputDirs, r \in GenerateOutcomes :
         LET g == generate_tile(files, r, description, name, size, isometric, output_dir)
         IN  /\ args' = [description |-> description, name |-> name, size |-> size,
                         isometric |-> isometric, output_dir |-> output_dir]
             /\ resp' = r
             /\ ret' = g.ret
             /\ files' = g.files
             /\ nwrites' = IF Saved(g.ret) THEN nwrites + 1 ELSE nwrites
    /\ tool' = "generate_tile"
    /\ ncalls' = ncalls + 1
    /\ UNCHANGED <<pc, setLocals, pollVars>>

\* generate_character_set up to the loop: default directions, empty results and errors
CharacterSetCall ==
    /\ pc = "idle"
    /\ tool = "none"
    /\ \E description \in Descriptions, name \in Names, size \in Sizes,
          directions \in {None} \cup {Some(l) : l \in DirectionLists},
          output_dir \in OutputDirs :
         /\ args' = [description |-> description, name |-> name, size |-> size,
                     directions |-> directions, output_dir |-> output_dir]
         /\ dirs' = IF directions.is_none THEN DefaultDirections ELSE directions.val
    /\ results' = <<>>
    /\ errors' = <<>>
    /\ idx' = 1
    /\ calls' = <<>>
    /\ outcomes' = <<>>
    /\ tool' = "generate_character_set"
    /\ ret' = NoCall
    /\ ncalls' = ncalls + 1
    /\ pc' = "set_loop"
    /\ UNCHANGED <<files, resp, nwrites, pollVars>>

\* CharacterSetIter that leaves the loop at the first failed direction
CharacterSetIter_Abort ==
    /\ pc = "set_loop"
    /\ idx <= Len(dirs)
    /\ \E r \in GenerateOutcomes :
         LET direction == dirs[idx]
             g == generate_sprite(files, r, args.description, args.name, args.size, args.size,
                                  "low top-down", direction, args.output_dir)
             result == g.ret
         IN  /\ resp' = r
             /\ calls' = Append(calls, direction)
             /\ outcomes' = Append(outcomes, r)
             /\ files' = g.files
             /\ nwrites' = IF Saved(result) THEN nwrites + 1 ELSE nwrites
             /\ IF result.ok
                THEN /\ results' = Append(results, result)
                     /\ errors' = errors
                     /\ idx' = idx + 1
                ELSE /\ errors' = Append(errors, [direction |-> direction,
                                                   error |-> result.error])
                     /\ results' = results
                     /\ idx' = Len(dirs) + 1
             /\ UNCHANGED <<ret, pc>>
    /\ UNCHANGED <<ncalls, tool, args, dirs, pollVars>>

\* one iteration of `for direction in directions`
CharacterSetIter ==
    /\ pc = "set_loop"
    /\ idx <= Len(dirs)
    /\ \E r \in GenerateOutcomes :
         LET direction == dirs[idx]
             g == generate_sprite(files, r, args.description, args.name, args.size, args.size,
                                  "low top-down", direction, args.output_dir)
             result == g.ret
         IN  /\ resp' = r
             /\ calls' = Append(calls, direction)
             /\ outcomes' = Append(outcomes, r)
             /\ files' = g.files
             /\ nwrites' = IF Saved(result) THEN nwrites + 1 ELSE nwrites
             /\ IF IsFault(result)
                THEN /\ ret' = result
                     /\ pc' = "idle"
                     /\ UNCHANGED <<results, errors, idx>>
                ELSE /\ IF result.ok
                        THEN /\ results' = Append(results, result)
                             /\ errors' = errors
                        ELSE /\ errors' = Append(errors, [direction |-> direction,
                                                           error |-> result.error])
                             /\ results' = results
                     /\ idx' = idx + 1
                     /\ UNCHANGED <<ret, pc>>
    /\ UNCHANGED <<ncalls, tool, args, dirs, pollVars>>

\* the end of the loop: `if not results` and the two return statements
CharacterSetReturn ==
    /\ pc = "set_loop"
    /\ idx > Len(dirs)
    /\ ret' = character_set_result(args.name, results, errors)
    /\ pc' = "idle"
    /\ UNCHANGED <<files, ncalls, tool, args, resp, setLocals, nwrites, pollVars>>

---------------------------------------------------------------------------
(* Step 3 of test_generate_sprite.py: wait for completion *)

ScriptMaxWait == 90
ScriptPollInterval == 5

StatusAnswers == {"empty", "nonempty", "raise"}

\* the script is not running
PollOff ==
    /\ max_wait = ScriptMaxWait
    /\ poll_interval = ScriptPollInterval
    /\ waited = 0
    /\ rotations = "unset"
    /\ ppc = "off"
    /\ trace = <<>>

\* lines 57-59, for the script's own values and for small positive ones
PollStart ==
    /\ max_wait \in (1..MaxWaitBound) \cup {ScriptMaxWait}
    /\ poll_interval \in 1..MaxInterval
    /\ waited = 0
    /\ rotations = "unset"
    /\ ppc = "while"
    /\ trace = <<>>

\* PollWhile with `waited <= max_wait`
PollWhile_Inclusive ==
    /\ ppc = "while"
    /\ ppc' = IF waited <= max_wait THEN "sleep" ELSE "check"
    /\ UNCHANGED <<max_wait, poll_interval, waited, rotations, trace, serverVars>>

\* line 61: `while waited < max_wait`
PollWhile ==
    /\ ppc = "while"
    /\ ppc' = IF waited < max_wait THEN "sleep" ELSE "check"
    /\ UNCHANGED <<max_wait, poll_interval, waited, rotations, trace, serverVars>>

\* PollSleep that counts one second per sleep
PollSleep_CountOne ==
    /\ ppc = "sleep"
    /\ waited' = waited + 1
    /\ trace' = Append(trace, "sleep")
    /\ ppc' = "poll"
    /\ UNCHANGED <<max_wait, poll_interval, rotations, serverVars>>

\* lines 62-63
PollSleep ==
    /\ ppc = "sleep"
    /\ waited' = waited + poll_interval
    /\ trace' = Append(trace, "sleep")
    /\ ppc' = "poll"
    /\ UNCHANGED <<max_wait, poll_interval, rotations, serverVars>>

\* PollStatus that swallows the exception and polls again
PollStatus_Swallow ==
    /\ ppc = "poll"
    /\ \E answer \in StatusAnswers :
         /\ trace' = Append(trace, answer)
         /\ IF answer = "raise"
            THEN /\ ppc' = "while"
                 /\ UNCHANGED rotations
            ELSE /\ rotations' = answer
                 /\ ppc' = IF answer = "nonempty" THEN "check" ELSE "while"
    /\ UNCHANGED <<max_wait, poll_interval, waited, serverVars>>

\* lines 65-76: the status query, `break` on rotations, exit(1) on an exception
PollStatus ==
    /\ ppc = "poll"
    /\ \E answer \in StatusAnswers :
         /\ trace' = Append(trace, answer)
         /\ IF answer = "raise"
            THEN /\ ppc' = "exit_status_failed"
                 /\ UNCHANGED rotations
            ELSE /\ rotations' = answer
                 /\ ppc' = IF answer = "nonempty" THEN "check" ELSE "while"
    /\ UNCHANGED <<max_wait, poll_interval, waited, serverVars>>

\* lines 78-82: `if waited >= max_wait` exits, otherwise step 4 starts
PollCheck ==
    /\ ppc = "check"
    /\ ppc' = IF waited >= max_wait THEN "exit_timeout" ELSE "download"
    /\ UNCHANGED <<max_wait, poll_interval, waited, rotations, trace, serverVars>>

---------------------------------------------------------------------------
(* Specifications *)

\* the single-request tools, called one after the other
Init == ServerInit /\ PollOff

Next ==
    \/ Health
    \/ GenerateSprite
    \/ GenerateTile

Spec == Init /\ [][Next]_vars

\* one call of generate_character_set
SetNext ==
    \/ CharacterSetCall
    \/ CharacterSetIter
    \/ CharacterSetReturn

SetSpec == Init /\ [][SetNext]_vars

\* the wait-for-completion loop
PollInit == ServerInit /\ PollStart

PollNext ==
    \/ PollWhile
    \/ PollSleep
    \/ PollStatus
    \/ PollCheck

PollSpec == PollInit /\ [][PollNext]_vars

\* the script runs on: time.sleep and the status query return, and the
\* interpreter takes the next step
PollFairSpec == PollSpec /\ WF_vars(PollNext)

\* one call of any one of the four tools
ToolNext ==
    \/ ncalls = 0 /\ Health
    \/ ncalls = 0 /\ GenerateSprite
    \/ ncalls = 0 /\ GenerateTile
    \/ SetNext

ToolSpec == Init /\ [][ToolNext]_vars

---------------------------------------------------------------------------
(* What the claims read *)

\* generate_character_set has returned
SetReturned == tool = "generate_character_set" /\ pc = "idle"

\* the remote call returned an image
IsSuccess(r) == r.kind = "response" /\ ~r.image.is_none

Distinct(l) == \A i, j \in 1..Len(l) : l[i] = l[j] => i = j

\* the directions a returned result lists as succeeded, and its error entries
SucceededDirections == IF ret.ok THEN ret.directions ELSE <<>>
ErrorEntries == IF ret.errors.is_none THEN <<>> ELSE ret.errors.val
ErrorDirections == [i \in 1..Len(ErrorEntries) |-> ErrorEntries[i].direction]

\* the directions among the first n remote calls whose outcome was a failure, in call order
RECURSIVE FailedCalls(_)
FailedCalls(n) ==
    IF n = 0 THEN <<>>
    ELSE IF IsSuccess(outcomes[n]) THEN FailedCalls(n - 1)
    ELSE Append(FailedCalls(n - 1), calls[n])

IsText(x) == x \in Seq(STRING)

---------------------------------------------------------------------------
(* Claims about generate_character_set, under SetSpec *)

\* C1: for a non-empty list of pairwise distinct directions, the returned result
\* accounts for each input direction exactly once: it is among the succeeded
\* directions or among the error entries, never both, never neither, and the
\* number of sprites plus the number of error entries is the number of directions.
C1_EachDirectionOnce ==
    (SetReturned /\ dirs # <<>> /\ Distinct(dirs)) =>
        /\ \A d \in Range(dirs) :
             (d \in Range(SucceededDirections)) # (d \in Range(ErrorDirections))
        /\ Len(SucceededDirections) + Len(ErrorEntries) = Len(dirs)
        /\ ret.ok => ret.sprites_generated + Len(ErrorEntries) = Len(dirs)

C1_Witness ==
    /\ SetReturned
    /\ dirs = <<west, north>>
    /\ SucceededDirections = <<north>>
    /\ ErrorDirections = <<west>>

\* C2: ok is true exactly when at least one sub-request succeeded, and a result
\* with ok true still carries one error entry, with direction and reason, for
\* each failed direction.
C2_OkIffSomeSuccess ==
    SetReturned =>
        /\ ret.ok = (\E i \in 1..Len(outcomes) : IsSuccess(outcomes[i]))
        /\ ret.ok =>
             /\ ErrorDirections = FailedCalls(Len(outcomes))
             /\ \A i \in 1..Len(ErrorEntries) : IsText(ErrorEntries[i].error)

C2_Witness ==
    /\ SetReturned
    /\ ret.ok
    /\ Len(dirs) = 4
    /\ Len(ErrorEntries) = 3
    /\ ret.directions = <<east>>

\* C3: if every sub-request fails, ok is false and the error list has exactly one
\* entry per input direction, each with a non-empty reason.
C3_AllFailedNonEmptyReasons ==
    (SetReturned /\ \A i \in 1..Len(outcomes) : ~IsSuccess(outcomes[i])) =>
        /\ ret.ok = FALSE
        /\ ErrorDirections = dirs
        /\ \A i \in 1..Len(ErrorEntries) : ErrorEntries[i].error # <<>>

\* C4: the remote generation is invoked exactly once per input direction, in
\* input order: a failure neither aborts nor skips the later directions, and no
\* direction is retried.
C4_OncePerDirectionInOrder ==
    /\ pc = "set_loop" => calls = SubSeq(dirs, 1, idx - 1)
    /\ SetReturned => calls = dirs

C4_Witness ==
    /\ SetReturned
    /\ dirs = <<south, east>>
    /\ ~IsSuccess(outcomes[1])
    /\ IsSuccess(outcomes[2])
    /\ calls = <<south, east>>

---------------------------------------------------------------------------
(* Claims about the single-request tools *)

\* the file name the specification gives for a name and a direction
ExpectedStem(name) ==
    IF name = <<"B", " ", "W">> THEN <<"b", "_", "w">> ELSE name

ExpectedSpritePath(a) ==
    [dir |-> <<IF a.output_dir.is_none \/ a.output_dir.val = ""
               THEN DEFAULT_OUTPUT_DIR ELSE a.output_dir.val>>,
     file |-> ExpectedStem(a.name) \o <<"_">> \o a.direction \o <<".", "p", "n", "g">>]

\* the step is a call of generate_sprite
SpriteStep == ncalls' = ncalls + 1 /\ tool' = "generate_sprite"

Returned == tool # "none" /\ pc = "idle"

\* C6: each of the four tools, for every outcome of the remote client, returns a
\* structured result with a boolean ok and, when ok is false, an error string;
\* no fault escapes.
C6_StructuredResult ==
    Returned =>
        /\ ~IsFault(ret)
        /\ "ok" \in DOMAIN ret
        /\ ret.ok \in BOOLEAN
        /\ ret.ok = FALSE => "error" \in DOMAIN ret /\ IsText(ret.error)

C6_Witness ==
    /\ Returned
    /\ tool = "generate_tile"
    /\ resp = Raise(<<"q", "u", "o", "t", "a">>)
    /\ ret.ok = FALSE
    /\ ret.error = <<"q", "u", "o", "t", "a">>

\* pat occurs in s, by scanning the suffixes of s
RECURSIVE Occurs(_, _)
Occurs(s, pat) ==
    IF Len(s) < Len(pat) THEN FALSE
    ELSE SubSeq(s, 1, Len(pat)) = pat \/ Occurs(Tail(s), pat)

\* C10: when the balance lookup fails, health returns ok false, with token_valid
\* false if the error text contains "401" or "Unauthorized" and true otherwise;
\* when it succeeds, health returns ok true, token_valid true and the balance.
C10_HealthClassification ==
    tool = "health" =>
        IF resp.kind = "raise"
        THEN /\ ret.ok = FALSE
             /\ ret.token_valid =
                  ~(Occurs(resp.text, <<"4", "0", "1">>)
                      \/ Occurs(resp.text,
                                <<"U", "n", "a", "u", "t", "h", "o", "r", "i", "z", "e", "d">>))
        ELSE /\ ret.ok = TRUE
             /\ ret.token_valid = TRUE
             /\ resp.usd # NoUsd => ret.balance_usd = resp.usd

C10_Witness ==
    /\ tool = "health"
    /\ resp.kind = "raise"
    /\ resp.text = <<"n", "o", "t", " ", "U", "n", "a", "u", "t", "h", "o", "r", "i", "z", "e", "d">>
    /\ ret.ok = FALSE
    /\ ret.token_valid = FALSE

\* C11: two successful calls of generate_sprite with the same name, direction
\* and output directory write to the same path: after the second call the disk
\* has the same files as after the first, the file of that pair holds the second
\* call's image, every other file is as it was, and the second call returns ok.
C11_SecondCallOverwrites ==
    [][(/\ tool = "generate_sprite"
        /\ ret.ok = TRUE
        /\ SpriteStep
        /\ IsSuccess(resp')
        /\ args'.name = args.name
        /\ args'.direction = args.direction
        /\ args'.output_dir = args.output_dir) =>
            /\ ret'.ok = TRUE
            /\ ret'.file_path = ret.file_path
            /\ DOMAIN files' = DOMAIN files
            /\ files'[ret.file_path] = resp'.image.val
            /\ \A q \in DOMAIN files : q # ret.file_path => files'[q] = files[q]]_vars

C11_Witness ==
    /\ tool = "generate_sprite"
    /\ ncalls = 2
    /\ nwrites = 2
    /\ args.name = <<"c">>
    /\ args.direction = east
    /\ args.output_dir = None
    /\ resp = Response(Some(2))
    /\ ret.ok
    /\ DOMAIN files = {[dir |-> <<"sprites">>,
                        file |-> <<"c", "_", "e", "a", "s", "t", ".", "p", "n", "g">>]}
    /\ files[ret.file_path] = 2

---------------------------------------------------------------------------
(* Claims about the wait-for-completion loop, under PollSpec *)

NSleeps == Cardinality({i \in 1..Len(trace) : trace[i] = "sleep"})
NPolls == Len(trace) - NSleeps

\* a poll returned a non-empty rotation list, and the loop was left by `break`
Detected == rotations = "nonempty"

\* the script has left step 3
PollEnded == ppc \in {"download", "exit_timeout", "exit_status_failed"}

\* C7 as stated: a status first non-empty on the k-th poll is detected after
\* exactly k-1 sleeps, and with poll_interval 5 and max_wait 10 a status empty
\* on the first two polls leads to READY after exactly 2 sleeps.
C7_Original ==
    /\ Detected => NSleeps = NPolls - 1
    /\ (poll_interval = 5 /\ max_wait = 10 /\ PollEnded
          /\ Len(trace) >= 4 /\ trace[2] = "empty" /\ trace[4] = "empty") =>
            ppc = "download" /\ NSleeps = 2

\* C7, amended: every poll is preceded by a sleep of poll_interval, so a status
\* first non-empty on the k-th poll is detected after exactly k sleeps, and no
\* sleep follows the poll that detects it; with poll_interval 5 and max_wait 10
\* the loop performs at most 2 sleeps and 2 polls, and after two empty polls it
\* makes no third poll and ends in TIMEOUT.
C7_SleepBeforeEachPoll ==
    /\ \A i \in 1..Len(trace) : (trace[i] = "sleep") = (i % 2 = 1)
    /\ waited = NSleeps * poll_interval
    /\ Detected =>
         /\ NSleeps = NPolls
         /\ trace[Len(trace)] = "nonempty"
         /\ \A i \in 1..(Len(trace) - 1) : trace[i] \in {"sleep", "empty"}
    /\ (poll_interval = 5 /\ max_wait = 10) =>
         /\ NSleeps <= 2
         /\ NPolls <= 2
         /\ trace = <<"sleep", "empty", "sleep", "empty">> =>
              ppc \in {"while", "check", "exit_timeout"}

C7_Witness ==
    /\ poll_interval = 5
    /\ max_wait = 10
    /\ trace = <<"sleep", "empty", "sleep", "empty">>
    /\ ppc = "exit_timeout"

\* C8: TIMEOUT is reported only when no poll returned a non-empty rotation list;
\* a run in which some poll returned one, the poll at which waited reaches
\* max_wait included, ends in READY.
C8_TimeoutOnlyWithoutReady ==
    /\ ppc = "exit_timeout" => "nonempty" \notin Range(trace)
    /\ (PollEnded /\ "nonempty" \in Range(trace)) => ppc = "download"

\* C9: a status query that raises ends the wait at once: no later poll and no
\* later sleep, and the outcome is the status-check failure, never TIMEOUT,
\* whatever waited is.
C9_QueryErrorAbortsWait ==
    /\ \A i \in 1..Len(trace) :
         trace[i] = "raise" => i = Len(trace) /\ ppc = "exit_status_failed"
    /\ ppc = "exit_status_failed" => trace # <<>> /\ trace[Len(trace)] = "raise"

C9_Witness ==
    /\ ppc = "exit_status_failed"
    /\ waited >= max_wait
    /\ NPolls = 3
    /\ trace[Len(trace)] = "raise"

---------------------------------------------------------------------------
(* Claim about the termination of the wait-for-completion loop, under PollFairSpec *)

\* ceil(max_wait / poll_interval)
MaxPollCount == (max_wait + poll_interval - 1) \div poll_interval

\* C12: for positive poll_interval and max_wait and every sequence of status
\* answers, the loop makes at most ceil(max_wait / poll_interval) polls, never
\* sleeps or polls again once waited has reached max_wait, and ends in READY,
\* TIMEOUT or the status-check failure.
C12_TerminatesWithinBound ==
    /\ [](/\ NPolls <= MaxPollCount
          /\ ppc = "sleep" => waited < max_wait
          /\ ppc = "poll" => waited - poll_interval < max_wait)
    /\ <>PollEnded

C12_Witness ==
    /\ max_wait = 10
    /\ poll_interval = 3
    /\ NPolls = 4
    /\ waited = 12
    /\ ppc = "exit_timeout"
    /\ "nonempty" \notin Range(trace)

====
